---- MODULE Spec2Model ----
(***************************************************************************)
(* Model of trading/broker_service/easytrader_service.py: a FastAPI        *)
(* gateway in front of one easytrader client object.  The module globals   *)
(* trader, broker_type and trader_connected are the session state.  Every  *)
(* route handler is an `async def` without any await, so the event loop    *)
(* runs each handler to completion before the next one starts: one action  *)
(* per handler.  The easytrader library is the collaborator; each of its   *)
(* calls either returns or raises, chosen nondeterministically.            *)
(***************************************************************************)
EXTENDS Integers, Sequences, FiniteSets, TLC

\* ---- bounds ------------------------------------------------------------
MaxHandles == 2     \* client objects easytrader.use() may create in a run

\* ---- values ------------------------------------------------------------
None == 0                                   \* Python None for the handle
Handles == 1..MaxHandles
BrokerTypes == {"yh", "ht"}
ExePaths == {"", "C:/xiadan.exe"}           \* "" stands for None / unset
Prices == {-1, 0, 1}                        \* sample prices around the gt=0 edge
Amounts == {0, 1}                           \* sample amounts around the gt=0 edge
TradingVerbs == {"buy", "sell", "cancel", "portfolio", "balance",
                 "orders", "today_trades"}

VARIABLES
    trader,            \* global trader: None or the client object held
    broker_type,       \* global broker_type
    trader_connected,  \* global trader_connected
    pc,                \* process position: "boot", "running", "stopped"
    env,               \* os.environ entries login reads (BROKER_EXE_PATH)
    nextHandle,        \* identity of the next object easytrader.use() makes
    hstate,            \* collaborator side: how far each client object got
    exitInvoked,       \* client objects on which exit() has been called
    request,           \* the request the last handler run served
    calls,             \* collaborator calls made by the last handler run
    resp,              \* HTTP response of the last handler run
    loginAttempted,    \* a connect sequence has been started at least once
    loginHandle,       \* object created by the latest successful connect
    loginBroker,       \* broker kind of the latest successful connect
    phase              \* "loggedIn" / "loggedOut" / "other", see login, logout

vars == <<trader, broker_type, trader_connected, pc, env, nextHandle, hstate,
          exitInvoked, request, calls, resp, loginAttempted, loginHandle,
          loginBroker, phase>>

session == <<trader, broker_type, trader_connected>>
collab == <<nextHandle, hstate, exitInvoked>>

\* ---- request models ----------------------------------------------------
LoginRequest ==
    [broker_type : BrokerTypes,
     cred : {<<"None", "None">>, <<"alice", "pw">>},
     exe_path : ExePaths]

OrderRequest ==
    [symbol : {"", "sh600000"}, price : Prices, amount : Amounts]

CancelRequest == [order_id : {"", "o1"}]

\* variant: the amount constraint is missing
BuyRequestValid_priceOnly(req) == req.price > 0

\* Field(..., gt=0) on price and amount; symbol is any str
BuyRequestValid(req) == req.price > 0 /\ req.amount > 0

SellRequestValid(req) == req.price > 0 /\ req.amount > 0

\* order_id: str = Field(...): any str
CancelRequestValid(req) == TRUE

\* ---- responses ---------------------------------------------------------
\* a payload is absent (Python None) or present
NoData == <<>>
Data(x) == <<x>>

\* create_response: the envelope carries success and data as given
create_response(success, data) == [success |-> success, data |-> data]

\* a handler that returns its envelope: HTTP 200
Ok200(envelope) ==
    [status |-> 200, envelope |-> TRUE,
     success |-> envelope.success, data |-> envelope.data]

\* raise HTTPException(status_code=...): no envelope, only a detail string
HTTPException(status) ==
    [status |-> status, envelope |-> FALSE,
     success |-> FALSE, data |-> NoData]

\* FastAPI answers 422 when the request model does not validate
ValidationError == HTTPException(422)

Request(verb, body) == [verb |-> verb, body |-> body]

Call(op, h, args, ok) == [op |-> op, h |-> h, args |-> args, ok |-> ok]

\* ---- initial state: the module has been imported -----------------------
Init ==
    /\ trader = None
    /\ broker_type = "yh"
    /\ trader_connected = FALSE
    /\ pc = "boot"
    /\ env \in [BROKER_EXE_PATH : ExePaths]
    /\ nextHandle = 1
    /\ hstate = [h \in Handles |-> "none"]
    /\ exitInvoked = {}
    /\ request = Request("none", <<>>)
    /\ calls = <<>>
    /\ resp = HTTPException(0)
    /\ loginAttempted = FALSE
    /\ loginHandle = None
    /\ loginBroker = "none"
    /\ phase = "other"

\* ---- the connect sequence ----------------------------------------------
\* variant of ConnectCalls: a raising trader.login() is tried a second time
\* failAt: 0 nothing raises, 1 easytrader.use raises, 2 prepare raises,
\* 3 login raises.  The calls made, in order, up to and including the one
\* that raised.
ConnectCalls_retryLogin(h, broker, prepArgs, authArgs, failAt) ==
    LET full == << Call("use", IF failAt = 1 THEN None ELSE h, <<broker>>,
                        failAt # 1),
                   Call("prepare", h, prepArgs, failAt # 2),
                   Call("login", h, authArgs, failAt # 3) >>
    IN  CASE failAt = 0 -> full
          [] failAt = 3 -> Append(full, Call("login", h, authArgs, FALSE))
          [] OTHER -> SubSeq(full, 1, failAt)

ConnectCalls(h, broker, prepArgs, authArgs, failAt) ==
    LET full == << Call("use", IF failAt = 1 THEN None ELSE h, <<broker>>,
                        failAt # 1),
                   Call("prepare", h, prepArgs, failAt # 2),
                   Call("login", h, authArgs, failAt # 3) >>
    IN  IF failAt = 0 THEN full ELSE SubSeq(full, 1, failAt)

\* how far the new client object got
ConnectState(failAt) ==
    CASE failAt = 0 -> "live"
      [] failAt = 2 -> "created"
      [] failAt = 3 -> "prepared"

\* variant: a held object is kept instead of being replaced
login_trader_keepOld(h, failAt) ==
    IF failAt = 1 \/ trader # None THEN trader ELSE h

\* globals after the try block of login: trader is rebound as soon as
\* easytrader.use returned, broker_type right after it
login_trader(h, failAt) == IF failAt = 1 THEN trader ELSE h

login_broker_type(broker, failAt) ==
    IF failAt = 1 THEN broker_type ELSE broker

\* variant: the except branch does not reset the flag
login_connected_stale(failAt) == failAt = 0 \/ trader_connected

\* variant: the flag is raised before trader.login() is called
login_connected_early(failAt) == failAt \in {0, 3}

\* trader_connected = True at the end of the try, False in the except
login_connected(failAt) == failAt = 0

\* the collaborator after a connect sequence on a fresh object h
ConnectCollab(h, failAt) ==
    IF failAt = 1
    THEN UNCHANGED collab
    ELSE /\ nextHandle' = nextHandle + 1
         /\ hstate' = [hstate EXCEPT ![h] = ConnectState(failAt)]
         /\ UNCHANGED exitInvoked

\* ---- lifespan, before the yield ----------------------------------------
\* the environment entries only lifespan reads
StartupEnv ==
    [BROKER_TYPE : BrokerTypes,
     BROKER_USERNAME : {"", "envuser"},
     BROKER_PASSWORD : {"", "envpw"}]

\* variant: one of the two is enough
AutoLogin_either(cfg) == cfg.BROKER_USERNAME # "" \/ cfg.BROKER_PASSWORD # ""

\* if username and password:
AutoLogin(cfg) == cfg.BROKER_USERNAME # "" /\ cfg.BROKER_PASSWORD # ""

Startup(cfg, failAt) ==
    /\ pc = "boot"
    /\ pc' = "running"
    /\ request' = Request("startup", cfg)
    /\ resp' = resp
    /\ UNCHANGED <<env, broker_type>>
    /\ IF AutoLogin(cfg)
       THEN LET h == nextHandle
                authArgs == IF cfg.BROKER_TYPE = "yh" THEN <<>>
                            ELSE <<cfg.BROKER_USERNAME, cfg.BROKER_PASSWORD>>
            IN  /\ calls' = ConnectCalls(h, cfg.BROKER_TYPE,
                                         <<env.BROKER_EXE_PATH>>, authArgs,
                                         failAt)
                /\ trader' = IF failAt = 1 THEN trader ELSE h
                /\ trader_connected' = (failAt = 0)
                /\ ConnectCollab(h, failAt)
                /\ loginAttempted' = TRUE
                /\ loginHandle' = IF failAt = 0 THEN h ELSE loginHandle
                /\ loginBroker' = IF failAt = 0 THEN cfg.BROKER_TYPE
                                ELSE loginBroker
                /\ UNCHANGED phase
       ELSE /\ failAt = 0
            /\ calls' = <<>>
            /\ UNCHANGED <<trader, trader_connected, collab, loginAttempted,
                           loginHandle, loginBroker, phase>>

\* ---- GET /health --------------------------------------------------------
\* variant: connected is derived from the held object, not from the flag
health_check_handleHeld ==
    /\ pc = "running"
    /\ request' = Request("health", <<>>)
    /\ calls' = <<>>
    /\ resp' = Ok200(create_response(TRUE,
                   Data([connected |-> trader # None,
                         broker_type |-> broker_type])))
    /\ UNCHANGED <<session, pc, env, collab, loginAttempted, loginHandle,
                   loginBroker, phase>>

health_check ==
    /\ pc = "running"
    /\ request' = Request("health", <<>>)
    /\ calls' = <<>>
    /\ resp' = Ok200(create_response(TRUE,
                   Data([connected |-> trader_connected,
                         broker_type |-> broker_type])))
    /\ UNCHANGED <<session, pc, env, collab, loginAttempted, loginHandle,
                   loginBroker, phase>>

\* ---- POST /login --------------------------------------------------------
\* exe_path = req.exe_path or os.getenv("BROKER_EXE_PATH", ""), then
\* trader.prepare(exe_path) if exe_path else trader.prepare()
login_prepare_args(req) ==
    LET exe_path == IF req.exe_path # "" THEN req.exe_path
                    ELSE env.BROKER_EXE_PATH
    IN  IF exe_path # "" THEN <<exe_path>> ELSE <<>>

\* variant: the "yh" branch is missing
login_auth_args_always(req) == req.cred

\* trader.login() for "yh", trader.login(req.username, req.password) else
login_auth_args(req) == IF req.broker_type = "yh" THEN <<>> ELSE req.cred

login(req, failAt) ==
    /\ pc = "running"
    /\ failAt # 1 => nextHandle <= MaxHandles
    /\ request' = Request("login", req)
    /\ LET h == nextHandle
       IN  /\ calls' = ConnectCalls(h, req.broker_type,
                                    login_prepare_args(req),
                                    login_auth_args(req), failAt)
           /\ trader' = login_trader(h, failAt)
           /\ broker_type' = login_broker_type(req.broker_type, failAt)
           /\ trader_connected' = login_connected(failAt)
           /\ ConnectCollab(h, failAt)
           /\ loginHandle' = IF failAt = 0 THEN h ELSE loginHandle
           /\ loginBroker' = IF failAt = 0 THEN req.broker_type
                           ELSE loginBroker
    /\ resp' = IF failAt = 0
               THEN Ok200(create_response(TRUE,
                        Data([broker_type |-> req.broker_type])))
               ELSE HTTPException(500)
    /\ loginAttempted' = TRUE
    /\ phase' = CASE failAt = 0 -> "loggedIn"
                  [] failAt # 0 /\ phase = "loggedIn" -> "other"
                  [] OTHER -> phase
    /\ UNCHANGED <<pc, env>>

\* ---- GET /logout --------------------------------------------------------
\* variant: answers like the trading handlers do when nobody is logged in
logout_no_trader_503 == HTTPException(503)

\* the early return when no object is held
logout_no_trader == Ok200(create_response(FALSE, NoData))

\* variant: the flag is not reset when the object is dropped
logout_connected_kept == trader_connected

\* trader_connected = False after trader.exit() returned
logout_connected == FALSE

\* exitOk: whether trader.exit() returns (TRUE) or raises (FALSE)
logout(exitOk) ==
    /\ pc = "running"
    /\ request' = Request("logout", <<>>)
    /\ IF trader = None
       THEN /\ calls' = <<>>
            /\ resp' = logout_no_trader
            /\ UNCHANGED <<session, collab, phase>>
       ELSE /\ calls' = << Call("exit", trader, <<>>, exitOk) >>
            /\ exitInvoked' = exitInvoked \cup {trader}
            /\ UNCHANGED <<nextHandle, broker_type>>
            /\ IF exitOk
               THEN /\ trader_connected' = logout_connected
                    /\ trader' = None
                    /\ hstate' = [hstate EXCEPT ![trader] = "exited"]
                    /\ resp' = Ok200(create_response(TRUE, NoData))
                    /\ phase' = "loggedOut"
               ELSE /\ UNCHANGED <<trader, trader_connected, hstate>>
                    /\ resp' = HTTPException(500)
                    /\ phase' = IF phase = "loggedIn" THEN "other" ELSE phase
    /\ UNCHANGED <<pc, env, loginAttempted, loginHandle, loginBroker>>

\* ---- trading and query routes -------------------------------------------
\* variant: only the held object is tested
NotLoggedIn_handleOnly == trader = None

\* the guard every trading/query handler starts with
NotLoggedIn == trader = None \/ ~trader_connected

\* variant: a raising collaborator call marks the session disconnected
Dispatch_dropOnError(verb, body, op, args, ok) ==
    /\ pc = "running"
    /\ request' = Request(verb, body)
    /\ IF NotLoggedIn
       THEN /\ calls' = <<>>
            /\ resp' = HTTPException(503)
            /\ UNCHANGED trader_connected
       ELSE /\ calls' = << Call(op, trader, args, ok) >>
            /\ resp' = IF ok THEN Ok200(create_response(TRUE, Data(op)))
                       ELSE HTTPException(500)
            /\ trader_connected' = ok
    /\ UNCHANGED <<trader, broker_type, pc, env, collab, loginAttempted,
                   loginHandle, loginBroker, phase>>

\* the body shared by the seven handlers: guard, one collaborator call on
\* the held object, translation of its outcome.  ok: the call returns.
Dispatch(verb, body, op, args, ok) ==
    /\ pc = "running"
    /\ request' = Request(verb, body)
    /\ IF NotLoggedIn
       THEN /\ calls' = <<>>
            /\ resp' = HTTPException(503)
       ELSE /\ calls' = << Call(op, trader, args, ok) >>
            /\ resp' = IF ok THEN Ok200(create_response(TRUE, Data(op)))
                       ELSE HTTPException(500)
    /\ UNCHANGED <<session, pc, env, collab, loginAttempted, loginHandle,
                   loginBroker, phase>>

\* the request model did not validate: the handler is not entered
Rejected(verb, body) ==
    /\ pc = "running"
    /\ request' = Request(verb, body)
    /\ calls' = <<>>
    /\ resp' = ValidationError
    /\ UNCHANGED <<session, pc, env, collab, loginAttempted, loginHandle,
                   loginBroker, phase>>

buy(req, ok) ==
    IF BuyRequestValid(req)
    THEN Dispatch("buy", req, "buy", <<req.symbol, req.price, req.amount>>, ok)
    ELSE Rejected("buy", req)

sell(req, ok) ==
    IF SellRequestValid(req)
    THEN Dispatch("sell", req, "sell", <<req.symbol, req.price, req.amount>>,
                  ok)
    ELSE Rejected("sell", req)

cancel(req, ok) ==
    IF CancelRequestValid(req)
    THEN Dispatch("cancel", req, "cancel_entrust", <<req.order_id>>, ok)
    ELSE Rejected("cancel", req)

get_portfolio(ok) == Dispatch("portfolio", <<>>, "position", <<>>, ok)

get_balance(ok) == Dispatch("balance", <<>>, "balance", <<>>, ok)

get_orders(ok) == Dispatch("orders", <<>>, "today_entrusts", <<>>, ok)

get_today_trades(ok) == Dispatch("today_trades", <<>>, "today_trades", <<>>, ok)

\* ---- lifespan, after the yield ------------------------------------------
Shutdown(exitOk) ==
    /\ pc = "running"
    /\ pc' = "stopped"
    /\ request' = Request("shutdown", <<>>)
    /\ resp' = resp
    /\ IF trader = None
       THEN /\ calls' = <<>>
            /\ UNCHANGED collab
       ELSE /\ calls' = << Call("exit", trader, <<>>, exitOk) >>
            /\ exitInvoked' = exitInvoked \cup {trader}
            /\ hstate' = IF exitOk THEN [hstate EXCEPT ![trader] = "exited"]
                         ELSE hstate
            /\ UNCHANGED nextHandle
    /\ UNCHANGED <<session, env, loginAttempted, loginHandle, loginBroker,
                   phase>>

\* ---- specification ------------------------------------------------------
Next ==
    \/ \E cfg \in StartupEnv, failAt \in 0..3 : Startup(cfg, failAt)
    \/ health_check
    \/ \E req \in LoginRequest, failAt \in 0..3 : login(req, failAt)
    \/ \E exitOk \in BOOLEAN : logout(exitOk)
    \/ \E req \in OrderRequest, ok \in BOOLEAN : buy(req, ok)
    \/ \E req \in OrderRequest, ok \in BOOLEAN : sell(req, ok)
    \/ \E req \in CancelRequest, ok \in BOOLEAN : cancel(req, ok)
    \/ \E ok \in BOOLEAN : get_portfolio(ok)
    \/ \E ok \in BOOLEAN : get_balance(ok)
    \/ \E ok \in BOOLEAN : get_orders(ok)
    \/ \E ok \in BOOLEAN : get_today_trades(ok)
    \/ \E exitOk \in BOOLEAN : Shutdown(exitOk)

Spec == Init /\ [][Next]_vars

TypeOK ==
    /\ trader \in {None} \cup Handles
    /\ broker_type \in BrokerTypes
    /\ trader_connected \in BOOLEAN
    /\ pc \in {"boot", "running", "stopped"}
    /\ nextHandle \in 1..(MaxHandles + 1)
    /\ exitInvoked \subseteq Handles

\* ---- properties ---------------------------------------------------------
\* every step of Next is one handler run and sets request to what it served,
\* so in a step request' names the handler that ran, the unprimed variables
\* are the state it found and the primed ones the state it left

\* the handler body was entered (the request model validated)
Handled(r) == r.status # 422

AllOk(cs) == \A i \in DOMAIN cs : cs[i].ok

\* C1: a trading/query request that reaches its handler while the session is
\* not Connected (trader_connected false) is answered 503 and makes no
\* collaborator call.
C1_NotConnected503 ==
    [][ (request'.verb \in TradingVerbs /\ Handled(resp')
            /\ ~trader_connected)
        => (resp'.status = 503 /\ calls' = <<>>) ]_vars

\* a trading request answered 503 although a client object was held
C1_Witness ==
    /\ request.verb \in TradingVerbs
    /\ resp.status = 503
    /\ trader # None
    /\ ~trader_connected

\* C2: a buy or sell with price <= 0 or amount <= 0 is rejected with a
\* 400-class status in every session state, makes no collaborator call and
\* leaves the session state unchanged.
C2_NonPositiveRejected ==
    [][ (request'.verb \in {"buy", "sell"}
            /\ (request'.body.price <= 0 \/ request'.body.amount <= 0))
        => (/\ resp'.status \in 400..499
            /\ calls' = <<>>
            /\ UNCHANGED session) ]_vars

\* a non-positive order rejected while the session was Connected
C2_Witness ==
    /\ request.verb \in {"buy", "sell"}
    /\ request.body.price > 0
    /\ request.body.amount <= 0
    /\ resp.status = 422
    /\ trader_connected

\* C3: a buy or sell with an empty symbol, or a cancel with an empty
\* order id, never causes a collaborator call.
C3_EmptyIdNoCall ==
    ( \/ request.verb \in {"buy", "sell"} /\ request.body.symbol = ""
      \/ request.verb = "cancel" /\ request.body.order_id = "" )
    => calls = <<>>

\* C4: a login that succeeds while a successfully connected session is held
\* replaces the held object by the one it created and makes no exit call on
\* the old one; every later trading/query call goes to the object created
\* by the latest successful login.
C4_LoginReplaces ==
    [][ /\ (request'.verb = "login" /\ resp'.status = 200
               /\ trader_connected)
           => (/\ trader' # trader
               /\ hstate[trader'] = "none"
               /\ trader' = calls'[1].h
               /\ \A i \in DOMAIN calls' : calls'[i].op # "exit"
               /\ exitInvoked' = exitInvoked
               /\ hstate'[trader] = hstate[trader])
        /\ request'.verb \in TradingVerbs
           => \A i \in DOMAIN calls' : calls'[i].h = loginHandle' ]_vars

\* a trade dispatched on the second object while the first one, logged in
\* earlier, was never exited
C4_Witness ==
    /\ request.verb \in TradingVerbs
    /\ calls # <<>>
    /\ calls[1].h = 2
    /\ trader = 2
    /\ hstate[1] = "live"
    /\ 1 \notin exitInvoked

\* C5: when a login request completes the session is Connected exactly if
\* use, prepare and login all returned (answer 200), and Disconnected with
\* answer 500 if one of them raised, whatever the state before.
C5_LoginDeterminate ==
    [][ request'.verb = "login"
        => LET done == Len(calls') = 3 /\ AllOk(calls')
           IN  /\ trader_connected' <=> done
               /\ done => resp'.status = 200 /\ trader' # None
               /\ ~done => resp'.status = 500 /\ ~AllOk(calls') ]_vars

\* a login that raised while a Connected session was held
C5_Witness ==
    /\ request.verb = "login"
    /\ resp.status = 500
    /\ ~trader_connected
    /\ loginHandle # None
    /\ hstate[loginHandle] = "live"
    /\ loginHandle \notin exitInvoked

\* C6: a logout before any connect attempt (startup auto-login or /login)
\* answers 200 with success=false, makes no collaborator call and leaves
\* the session state unchanged.
C6_LogoutNeverLoggedIn ==
    [][ (request'.verb = "logout" /\ ~loginAttempted)
        => (/\ resp'.status = 200
            /\ resp'.envelope
            /\ ~resp'.success
            /\ calls' = <<>>
            /\ UNCHANGED session) ]_vars

C6_Witness ==
    /\ request.verb = "logout"
    /\ ~loginAttempted
    /\ resp.status = 200
    /\ ~resp.success

\* C7: a logout handled while the session is Disconnected
\* (trader_connected false) answers 200 with success=false and makes no
\* collaborator call.
C7_LogoutDisconnectedNoop ==
    [][ (request'.verb = "logout" /\ ~trader_connected)
        => (/\ resp'.status = 200
            /\ ~resp'.success
            /\ calls' = <<>>) ]_vars

\* C8: a logout handled while Connected calls exit once and leaves the
\* session Disconnected whether exit returned or raised.
C8_LogoutAlwaysDisconnects ==
    [][ (request'.verb = "logout" /\ trader_connected)
        => (/\ Len(calls') = 1
            /\ calls'[1].op = "exit"
            /\ ~trader_connected') ]_vars

\* C9: from a logout answered success=true until a login succeeds, every
\* trading/query request that reaches its handler is answered 503 without a
\* collaborator call; from a login that succeeded until the next logout or
\* failed login, every such request makes its collaborator call.
C9_LogoutThenLogin ==
    (request.verb \in TradingVerbs /\ Handled(resp))
    => /\ phase = "loggedOut" => (resp.status = 503 /\ calls = <<>>)
       /\ phase = "loggedIn"
            => (Len(calls) = 1 /\ calls[1].h = trader
                /\ resp.status = IF calls[1].ok THEN 200 ELSE 500)

\* after a successful logout a login failed, leaving an object held, and
\* the trading request that followed was answered 503
C9_Witness ==
    /\ request.verb \in TradingVerbs
    /\ phase = "loggedOut"
    /\ resp.status = 503
    /\ trader # None

\* C10: a trading/query request handled while Connected leaves trader,
\* trader_connected and broker_type unchanged whether the collaborator call
\* returned or raised; it makes that one call on the held object and
\* answers 500 when it raised.
C10_TradeKeepsSession ==
    [][ (request'.verb \in TradingVerbs /\ Handled(resp')
            /\ trader_connected)
        => (/\ UNCHANGED session
            /\ Len(calls') = 1
            /\ calls'[1].h = trader
            /\ resp'.status = IF calls'[1].ok THEN 200 ELSE 500) ]_vars

\* a collaborator call raised, answered 500, session still Connected
C10_Witness ==
    /\ request.verb \in TradingVerbs
    /\ resp.status = 500
    /\ trader_connected
    /\ trader # None

\* C11: whenever health reports connected=true, the broker_type it reports
\* is the broker kind of the connect (auto-login at startup or /login) that
\* established the held object.
C11_HealthBrokerKind ==
    (request.verb = "health" /\ resp.data[1].connected)
    => resp.data[1].broker_type = loginBroker

\* C12: in any interleaving of buy, sell and health requests against a
\* Connected session each of them leaves trader, trader_connected and
\* broker_type as it found them, and every health check reports
\* connected=true together with the broker kind of that session (the one
\* its connect was made with).
C12_NoTornState ==
    [][ (request'.verb \in {"buy", "sell", "health"} /\ trader_connected)
        => (/\ UNCHANGED session
            /\ trader' # None
            /\ request'.verb = "health"
                 => resp'.data = Data([connected |-> TRUE,
                                       broker_type |-> loginBroker])) ]_vars

\* C13: every envelope a handler returns has data present exactly when
\* success is true.
C13_EnvelopeExactlyOne ==
    resp.envelope => (resp.success <=> resp.data # NoData)

\* the collaborator operation each trading/query handler calls
VerbOp(verb) ==
    CASE verb = "buy" -> "buy"
      [] verb = "sell" -> "sell"
      [] verb = "cancel" -> "cancel_entrust"
      [] verb = "portfolio" -> "position"
      [] verb = "balance" -> "balance"
      [] verb = "orders" -> "today_entrusts"
      [] verb = "today_trades" -> "today_trades"

\* C14: a trading/query request makes its one collaborator call exactly once
\* when it validated and the session was Connected, and none otherwise; a
\* login request calls each of use, prepare, login at most once; this holds
\* whether the collaborator returns or raises.
C14_NoRetry ==
    [][ /\ request'.verb \in TradingVerbs
           => /\ Len(calls') = IF Handled(resp') /\ trader # None
                                    /\ trader_connected
                               THEN 1 ELSE 0
              /\ \A i \in DOMAIN calls' :
                    calls'[i].op = VerbOp(request'.verb)
        /\ request'.verb = "login"
           => /\ \A i \in DOMAIN calls' :
                    calls'[i].op \in {"use", "prepare", "login"}
              /\ \A i, j \in DOMAIN calls' :
                    i # j => calls'[i].op # calls'[j].op ]_vars

\* a login whose authenticate step raised and was not tried again
C14_Witness ==
    /\ request.verb = "login"
    /\ Len(calls) = 3
    /\ ~calls[3].ok
    /\ resp.status = 500

\* client objects whose connect sequence completed and whose exit() has not
\* returned
Live == {h \in Handles : hstate[h] = "live"}

\* C15: at most one authenticated collaborator session is live at any time.
C15_AtMostOneLive == Cardinality(Live) <= 1

\* C16: a login request calls use(broker_type), then prepare on the new
\* object (with the request's exe_path, else BROKER_EXE_PATH, else without
\* argument), then login on it (without arguments for "yh", with the
\* request's username and password otherwise); a step is only reached when
\* the steps before it returned.
C16_ConnectSequence ==
    [][ request'.verb = "login"
        => LET b == request'.body
               n == Len(calls')
               path == IF b.exe_path # "" THEN b.exe_path
                       ELSE env.BROKER_EXE_PATH
           IN  /\ n \in 1..3
               /\ calls'[1].op = "use"
               /\ calls'[1].args = <<b.broker_type>>
               /\ n >= 2 => /\ calls'[1].ok
                            /\ calls'[2].op = "prepare"
                            /\ calls'[2].h = calls'[1].h
                            /\ calls'[2].args = IF path # "" THEN <<path>>
                                                ELSE <<>>
               /\ n = 3 => /\ calls'[2].ok
                           /\ calls'[3].op = "login"
                           /\ calls'[3].h = calls'[1].h
                           /\ calls'[3].args = IF b.broker_type = "yh"
                                               THEN <<>> ELSE b.cred
               /\ n < 3 => ~calls'[n].ok ]_vars

\* a "yh" login with credentials in the request and no exe_path of its own:
\* prepared with the environment's path, authenticated without arguments
C16_Witness ==
    /\ request.verb = "login"
    /\ request.body.broker_type = "yh"
    /\ request.body.cred = <<"alice", "pw">>
    /\ request.body.exe_path = ""
    /\ Len(calls) = 3
    /\ calls[2].args = <<env.BROKER_EXE_PATH>>
    /\ calls[3].args = <<>>

\* C17: at startup a connect is attempted exactly when BROKER_USERNAME and
\* BROKER_PASSWORD are both non-empty; the service starts in every case;
\* after a successful attempt it is Connected and holds the created object,
\* after an attempt that raised it is Disconnected, and without an attempt
\* no collaborator call was made, no object is held and it is Disconnected.
C17_StartupConnect ==
    [][ request'.verb = "startup"
        => LET cfg == request'.body
               attempted == cfg.BROKER_USERNAME # ""
                            /\ cfg.BROKER_PASSWORD # ""
               done == Len(calls') = 3 /\ AllOk(calls')
           IN  /\ pc' = "running"
               /\ calls' # <<>> <=> attempted
               /\ (attempted /\ done)
                    => (trader_connected' /\ trader' # None
                        /\ trader' = calls'[1].h)
               /\ (attempted /\ ~done) => ~trader_connected'
               /\ ~attempted => (trader' = None /\ ~trader_connected') ]_vars

\* the auto-login raised and the service is running, Disconnected
C17_Witness ==
    /\ request.verb = "startup"
    /\ pc = "running"
    /\ calls # <<>>
    /\ ~AllOk(calls)
    /\ ~trader_connected

\* C18: a health request is answered 200 with success=true in every session
\* state, makes no collaborator call, leaves trader, trader_connected and
\* broker_type unchanged, and reports connected equal to trader_connected.
C18_HealthReadOnly ==
    [][ request'.verb = "health"
        => (/\ resp'.status = 200
            /\ resp'.envelope
            /\ resp'.success
            /\ calls' = <<>>
            /\ UNCHANGED session
            /\ resp'.data[1].connected = trader_connected) ]_vars

\* health served while an object is held but the session is Disconnected
C18_Witness ==
    /\ request.verb = "health"
    /\ resp.status = 200
    /\ trader # None
    /\ ~trader_connected
    /\ ~resp.data[1].connected

\* C19: a trading/query collaborator call is only ever made on a client
\* object whose connect sequence completed and on which exit() has not been
\* invoked.
C19_OnlyConnectedHandles ==
    request.verb \in TradingVerbs
    => \A i \in DOMAIN calls :
          hstate[calls[i].h] = "live" /\ calls[i].h \notin exitInvoked

\* C20: in every reachable state trader_connected implies that an object is
\* held (trader is not None).
C20_ConnectedImpliesHandle == trader_connected => trader # None

\* still Connected and holding the object after a logout whose exit raised
C20_Witness ==
    /\ trader_connected
    /\ trader # None
    /\ request.verb = "logout"
    /\ resp.status = 500

====
